---- MODULE Spec2Model ----
(***************************************************************************)
(* Model of the platform simulation: PlattformModel (plattform_model.py)   *)
(* with its actors Anbieter and Nachfrager (akteure.py).                   *)
(*                                                                         *)
(* Numbers.  The code computes in floats; the model computes exactly in    *)
(* fixed point.  Network-effect values are integers in thousandths         *)
(* (0.4 = 400), strategy effects integers in hundredths (5.16 = 516),      *)
(* probabilities and random.random() integers in units of 1/10000.        *)
(*                                                                         *)
(* Randomness.  The module-level generator of Python's `random` is one     *)
(* process-wide state (zufall); the scheduler of a model shuffles with the *)
(* model's own generator (field zufall_m).  Both are modelled as the same  *)
(* seeded congruential generator: a seed fixes the whole stream.           *)
(***************************************************************************)
EXTENDS Integers, Sequences, FiniteSets, TLC

VARIABLES zufall,    \* state of the process-wide generator of module random
          modelle,   \* the PlattformModel instances of the process
          probe      \* a tracker history handed to the join-rate functions

vars == <<zufall, modelle, probe>>

----------------------------------------------------------------------------
(* Bounds of the model *)

MaxSeed == 3          \* seeds 0..MaxSeed
MaxStart == 2         \* initial counts -1..MaxStart
MaxTage == 12         \* days of the broad specification
MaxTageLang == 64     \* days of the long specification
MaxSeedLang == 5      \* seeds of the long specification
MaxTageZwei == 3      \* days per model when two models share the process
MaxProbeLen == 32     \* history lengths of the join-rate probe
MaxBewertungen == 3   \* ratings per Anbieter of the Gate-A probe
MaxTageLauf == 3      \* values 1..MaxTageLauf of the option --days
MaxSeedGross == 7     \* seeds of the specification with large populations
MaxTageGross == 3
MaxTageTrend == 45
MaxSinktLen == 60
MaxSeedAbwanderung == 40
MaxSeedNachfrager == 23     \* days of the specification with large populations

----------------------------------------------------------------------------
(* Helpers *)

Min(a, b) == IF a < b THEN a ELSE b
Max(a, b) == IF a > b THEN a ELSE b
Abs(a) == IF a < 0 THEN 0 - a ELSE a

RECURSIVE Summe(_)
Summe(s) == IF s = <<>> THEN 0 ELSE Head(s) + Summe(Tail(s))

\* seed=None: no seed was given
KeinSeed == 0 - 1

----------------------------------------------------------------------------
(* The random generator (Python's random.Random, one stream per state) *)

\* random.random() and every probability are integers in units of 1/Einheit
Einheit == 100 * 100

\* random.seed(seed) and random.Random(seed): the state a seed determines
Saat(seed) == (seed * 40503 + 4711) % 65536

\* the generator's next state
Weiter(z) == (z * 25173 + 13849) % 65536

\* random.random() read off a state: a value in [0, 1)
Wert(z) == (z * Einheit) \div 65536

\* _randbelow(n) read off a state: an index in 0..n-1
Unter(z, n) == (z * n) \div 65536

----------------------------------------------------------------------------
(* Program constants *)

basis_wahrscheinlichkeit_anbieter == 150      \* 0.015
basis_wahrscheinlichkeit_nachfrager == 200    \* 0.02
max_wahrscheinlichkeit_anbieter == 2000       \* 0.2
max_wahrscheinlichkeit_nachfrager == 3000     \* 0.3
HistoryMaxlen == 60                           \* deque(maxlen=60)
Vergleichsfenster == 30                       \* len(N_p_history) - 30
NormalisierungAnbieter == 800
NormalisierungNachfrager == 600
Angebotsintervall == 60                       \* iteration % 60 == 0
CooldownTage == 7                             \* self.cooldown = 7
SchritteStandard == 365                       \* schritte=365
SeedStandard == 42                            \* seed_start=42
Kaufwahrscheinlichkeit == 3000                \* 0.3

----------------------------------------------------------------------------
(* Tracker: N_p_history and the functions that read it *)

\* a history without maxlen
MutDequeAppend(h, v) == Append(h, v)

\* deque(maxlen=60).append(v): the oldest value leaves when the deque is full
DequeAppend(h, v) ==
    IF Len(h) >= HistoryMaxlen THEN Append(Tail(h), v) ELSE Append(h, v)

\* the oldest value as the baseline of the join rates
MutVergleichswert(h) == h[1]

\* N_p_history[vergleichsindex] with vergleichsindex = max(0, len - 30);
\* Python indexes from 0, sequences from 1
Vergleichswert(h) == h[Max(0, Len(h) - Vergleichsfenster) + 1]

\* a comparison that takes an unchanged value for a decline
Mutsinkt_netzwerkeffekt(h) ==
    IF Len(h) < Vergleichsfenster THEN FALSE
    ELSE h[Len(h)] <= Vergleichswert(h)

\* a trend check with the length test of the join rates
Mutsinkt_netzwerkeffektFrueh(h) ==
    IF Len(h) < 2 THEN FALSE
    ELSE h[Len(h)] < Vergleichswert(h)

\* PlattformModel.sinkt_netzwerkeffekt on the history h
sinkt_netzwerkeffekt(h) ==
    IF Len(h) < Vergleichsfenster THEN FALSE
    ELSE h[Len(h)] < Vergleichswert(h)

\* the exponentiation works in units of 1/Fein
Fein == Einheit * Einheit

\* the product of two values in units of 1/Fein, computed in halves so that
\* no intermediate result leaves the machine integers
FeinMal(a, b) ==
    (a \div Einheit) * (b \div Einheit)
        + ((a \div Einheit) * (b % Einheit) + (a % Einheit) * (b \div Einheit))
              \div Einheit
        + ((a % Einheit) * (b % Einheit)) \div Fein

Hoch10(r) ==
    LET r2 == FeinMal(r, r)
        r4 == FeinMal(r2, r2)
        r8 == FeinMal(r4, r4)
    IN  FeinMal(r8, r2)

Hoch7(r) ==
    LET r2 == FeinMal(r, r)
        r4 == FeinMal(r2, r2)
    IN  FeinMal(FeinMal(r4, r2), r)

\* the largest r in lo..hi with r^10 <= x
RECURSIVE Wurzel10(_, _, _)
Wurzel10(x, lo, hi) ==
    IF lo >= hi THEN lo
    ELSE LET mitte == (lo + hi + 1) \div 2
         IN  IF Hoch10(mitte) <= x THEN Wurzel10(x, mitte, hi)
             ELSE Wurzel10(x, lo, mitte - 1)

\* veraenderung / normalisierung in units of 1/Fein; veraenderung is in
\* thousandths, normalisierung a whole number
Verhaeltnis(veraenderung, normalisierung) ==
    ((veraenderung * 1000) \div normalisierung) * 100
        + (((veraenderung * 1000) % normalisierung) * 100) \div normalisierung

\* x ** 0.7 for 0 <= x < 1, x in units of 1/Fein, the result in units of
\* 1/Einheit: the 7th power of the 10th root
Potenz07(x) == Hoch7(Wurzel10(x, 0, Fein)) \div Einheit

\* min(1.0, (netzwerk_veraenderung / normalisierung) ** 0.7) for a positive
\* netzwerk_veraenderung: a ratio of 1 or more has a power of 1 or more
normalisierte_veraenderung(netzwerk_veraenderung, normalisierung) ==
    IF netzwerk_veraenderung >= normalisierung * 1000 THEN Einheit
    ELSE Min(Einheit,
             Potenz07(Verhaeltnis(netzwerk_veraenderung, normalisierung)))

\* the body shared by the two join-rate functions; h in thousandths
Beitrittsrate(h, basis, maxw, normalisierung) ==
    IF Len(h) < 2 THEN basis
    ELSE IF h[Len(h)] - Vergleichswert(h) <= 0 THEN basis
    ELSE basis + ((maxw - basis)
                     * normalisierte_veraenderung(
                           h[Len(h)] - Vergleichswert(h), normalisierung))
                 \div Einheit

berechne_beitrittsrate_anbieter(h) ==
    Beitrittsrate(h, basis_wahrscheinlichkeit_anbieter,
                  max_wahrscheinlichkeit_anbieter, NormalisierungAnbieter)

berechne_beitrittsrate_nachfrager(h) ==
    Beitrittsrate(h, basis_wahrscheinlichkeit_nachfrager,
                  max_wahrscheinlichkeit_nachfrager, NormalisierungNachfrager)

----------------------------------------------------------------------------
(* Actors and the scheduler's agent table *)

\* Anbieter.__init__; letzter_kauf is bookkeeping of the model only
Anbieter(unique_id) ==
    [unique_id |-> unique_id, typ |-> "Anbieter", bewertungen |-> <<>>,
     cooldown |-> 0, letzter_kauf |-> 0 - 1]

\* Nachfrager.__init__; letzter_kauf (the day of the actor's last purchase on
\* a day that was no offer day, -1 for none) is bookkeeping of the model only
Nachfrager(unique_id) ==
    [unique_id |-> unique_id, typ |-> "Nachfrager", bewertungen |-> <<>>,
     cooldown |-> 0, letzter_kauf |-> 0 - 1]

\* a key list that misses the agent registered first
MutSchluessel(agents) ==
    IF agents = <<>> THEN <<>>
    ELSE [i \in 1..(Len(agents) - 1) |-> agents[i + 1].unique_id]

\* the keys of schedule._agents, in insertion order
Schluessel(agents) == [i \in 1..Len(agents) |-> agents[i].unique_id]

Registriert(agents, id) == \E i \in 1..Len(agents) : agents[i].unique_id = id

IndexVon(agents, id) ==
    CHOOSE i \in 1..Len(agents) : agents[i].unique_id = id

\* sum(1 for a in schedule.agents if isinstance(a, ...))
Anzahl(agents, typ) == Cardinality({i \in 1..Len(agents) : agents[i].typ = typ})

\* [a for a in schedule.agents if isinstance(a, Anbieter)]
anbieter_liste(agents) == SelectSeq(agents, LAMBDA a : a.typ = "Anbieter")

\* the agent table with the entry of one agent replaced
Ersetze(agents, a) ==
    [agents EXCEPT ![IndexVon(agents, a.unique_id)] = a]

\* the ids given to actor objects, in the order of their creation
\* (bookkeeping of the model only)
Vergabe(agents) ==
    [i \in 1..Len(agents) |->
        [unique_id |-> agents[i].unique_id, typ |-> agents[i].typ]]

\* schedule.add(agent): an id that is already registered raises
schedule_add(m, a) ==
    IF Registriert(m.agents, a.unique_id)
    THEN [m EXCEPT !.zustand = "Ausnahme",
                   !.vergeben = @ \o Vergabe(<<a>>)]
    ELSE [m EXCEPT !.agents = Append(m.agents, a),
                   !.vergeben = @ \o Vergabe(<<a>>)]

\* schedule.remove(agent): an agent that is not registered raises
\* a removal that leaves the agent registered
Mutschedule_remove(m, id) == m

schedule_remove(m, id) ==
    IF ~Registriert(m.agents, id)
    THEN [m EXCEPT !.zustand = "Ausnahme"]
    ELSE [m EXCEPT !.agents =
              SelectSeq(m.agents, LAMBDA a : a.unique_id # id)]

\* what one activation of one agent did (bookkeeping of the model only);
\* zuege is the number of draws it took from the generator
Ereignis(a, tag) ==
    [unique_id |-> a.unique_id, typ |-> a.typ, tag |-> tag, zuege |-> 0,
     cooldown_vor |-> a.cooldown, cooldown_nach |-> a.cooldown,
     letzter_kauf_vor |-> a.letzter_kauf,
     gekauft |-> FALSE, bewertet |-> <<>>, bewertung |-> 0,
     sinkt |-> FALSE, tor |-> "", geprueft |-> FALSE, entfernt |-> FALSE]

----------------------------------------------------------------------------
(* Anbieter *)

\* a probability that grows with the mean: (durchschnitt - 2.5) for
\* (2.5 - durchschnitt)
MutAbwanderungBewertung(b) ==
    Min(1000 + (2000 * Summe(b) - 5000 * Len(b)) \div Len(b), 9000)

\* min(0.1 + (2.5 - durchschnitt) * 0.2, 0.9) for the ratings b
AbwanderungBewertung(b) ==
    Min(1000 + (5000 * Len(b) - 2000 * Summe(b)) \div Len(b), 9000)

\* a Gate B that measures the decline from the value 30 back
MutAbwanderungTrendAnbieter(h) ==
    Max(500, Min(2000, Abs(h[Len(h)] - Vergleichswert(h)) \div 100))

\* a Gate B with the numbers of the Nachfrager
MutAbwanderungTrendAnbieterZahlen(h) ==
    Max(200, Min(1500, Abs(h[Len(h)] - h[1]) \div 150))

\* max(0.05, min(0.2, abs(N_p_history[-1] - N_p_history[0]) / 1000))
AbwanderungTrendAnbieter(h) == Max(500, Min(2000, Abs(h[Len(h)] - h[1]) \div 100))

\* a churn probability that measures the decline from the value 30 back
MutAbwanderungTrendNachfrager(h) ==
    Max(200, Min(1500, Abs(h[Len(h)] - Vergleichswert(h)) \div 150))

\* max(0.02, min(0.15, abs(N_p_history[-1] - N_p_history[0]) / 1500))
AbwanderungTrendNachfrager(h) == Max(200, Min(1500, Abs(h[Len(h)] - h[1]) \div 150))

\* a mean that is computed without looking at the number of ratings
MutMittelBerechnet(b) == TRUE

\* if len(self.bewertungen) > 0: the mean is computed under this condition
MittelBerechnet(b) == Len(b) > 0

\* a check that goes on to the trend after the ratings decided
Mutpruefe_abwanderung(z, a, h) ==
    LET b == a.bewertungen
        schlecht == Len(b) > 0 /\ 10 * Summe(b) <= 25 * Len(b)
        z1 == IF schlecht THEN Weiter(z) ELSE z
        torA == schlecht /\ Wert(z1) < AbwanderungBewertung(b)
        sinkt == sinkt_netzwerkeffekt(h)
        z2 == IF sinkt THEN Weiter(z1) ELSE z1
        torB == sinkt /\ Wert(z2) < AbwanderungTrendAnbieter(h)
    IN  [z |-> z2, ergebnis |-> torA \/ torB,
         tor |-> IF torA THEN "A" ELSE IF torB THEN "B" ELSE "",
         sinkt |-> sinkt, ausnahme |-> FALSE,
         zuege |-> (IF schlecht THEN 1 ELSE 0) + (IF sinkt THEN 1 ELSE 0)]

\* Anbieter.pruefe_abwanderung: the generator's state after the call, the
\* result, and the gate that decided it; sum(...) / len(...) of no ratings
\* raises ZeroDivisionError
pruefe_abwanderung(z, a, h) ==
    LET b == a.bewertungen
        ausnahme == MittelBerechnet(b) /\ Len(b) = 0
        schlecht == MittelBerechnet(b) /\ ~ausnahme
                        /\ 10 * Summe(b) <= 25 * Len(b)
        z1 == IF schlecht THEN Weiter(z) ELSE z
        torA == schlecht /\ Wert(z1) < AbwanderungBewertung(b)
        sinkt == sinkt_netzwerkeffekt(h)
        z2 == IF ~torA /\ sinkt THEN Weiter(z1) ELSE z1
        torB == ~torA /\ sinkt /\ Wert(z2) < AbwanderungTrendAnbieter(h)
    IN  IF ausnahme
        THEN [z |-> z, ergebnis |-> FALSE, tor |-> "", sinkt |-> FALSE,
              ausnahme |-> TRUE, zuege |-> 0]
        ELSE [z |-> z2, ergebnis |-> torA \/ torB,
              tor |-> IF torA THEN "A" ELSE IF torB THEN "B" ELSE "",
              sinkt |-> sinkt, ausnahme |-> FALSE,
              zuege |-> (IF schlecht THEN 1 ELSE 0)
                            + (IF ~torA /\ sinkt THEN 1 ELSE 0)]

\* Anbieter.step
AnbieterStep(w, a) ==
    LET p == pruefe_abwanderung(w.z, a, w.m.N_p_history)
        e == [Ereignis(a, w.m.steps) EXCEPT
                  !.geprueft = TRUE, !.sinkt = p.sinkt, !.tor = p.tor,
                  !.entfernt = p.ergebnis, !.zuege = p.zuege]
        m1 == [w.m EXCEPT !.protokoll = Append(@, e)]
    IN  IF p.ausnahme THEN [w EXCEPT !.m.zustand = "Ausnahme"]
        ELSE IF p.ergebnis
        THEN [w EXCEPT !.z = p.z,
                       !.m = schedule_remove(
                                 [m1 EXCEPT !.abgewanderte_anbieter = @ + 1],
                                 a.unique_id)]
        ELSE [w EXCEPT !.z = p.z, !.m = m1]

----------------------------------------------------------------------------
(* Nachfrager *)

\* a rating that is the position of the stars in the list, not the stars
Mutbewerten(u) ==
    IF u < 500 THEN 0 ELSE IF u < 1500 THEN 1 ELSE IF u < 4500 THEN 2
    ELSE IF u < 7500 THEN 3 ELSE 4

\* Nachfrager.bewerten: random.choices([1..5], weights=[.05,.1,.3,.3,.25])
bewerten(u) ==
    IF u < 500 THEN 1 ELSE IF u < 1500 THEN 2 ELSE IF u < 4500 THEN 3
    ELSE IF u < 7500 THEN 4 ELSE 5

\* Nachfrager.kaufen: the generator's state after the call, the agent table
\* with the rating delivered, and whom it went to
kaufen(z, agents) ==
    LET liste == anbieter_liste(agents)
    IN  IF liste = <<>>
        THEN [z |-> z, agents |-> agents, bewertet |-> <<>>, bewertung |-> 0]
        ELSE LET z1 == Weiter(z)
                 anbieter == liste[Unter(z1, Len(liste)) + 1]
                 z2 == Weiter(z1)
                 bewertung == bewerten(Wert(z2))
             IN  [z |-> z2,
                  agents |-> Ersetze(agents,
                      [anbieter EXCEPT !.bewertungen = Append(@, bewertung)]),
                  bewertet |-> <<anbieter.unique_id>>,
                  bewertung |-> bewertung]

\* a cooldown that also holds on an offer day
Mutwartet(a, angebotstag) == a.cooldown > 0

\* a cooldown that counts as over one day early
MutwartetFrueh(a, angebotstag) == ~angebotstag /\ a.cooldown > 1

\* if not angebotstag and self.cooldown > 0: the actor waits
wartet(a, angebotstag) == ~angebotstag /\ a.cooldown > 0

\* Nachfrager.step
NachfragerStep(w, a) ==
    LET iteration == w.m.steps
        angebotstag == iteration % Angebotsintervall = 0
        e0 == Ereignis(a, iteration)
    IN  IF wartet(a, angebotstag)
        THEN LET a1 == [a EXCEPT !.cooldown = @ - 1]
             IN  [w EXCEPT
                      !.m.agents = Ersetze(@, a1),
                      !.m.protokoll = Append(@,
                          [e0 EXCEPT !.cooldown_nach = a1.cooldown])]
        ELSE
        LET z1 == IF angebotstag THEN w.z ELSE Weiter(w.z)
            kauf == angebotstag \/ Wert(z1) < Kaufwahrscheinlichkeit
            k == IF kauf THEN kaufen(z1, w.m.agents)
                 ELSE [z |-> z1, agents |-> w.m.agents, bewertet |-> <<>>,
                       bewertung |-> 0]
            a1 == IF kauf /\ ~angebotstag
                  THEN [a EXCEPT !.cooldown = CooldownTage,
                                 !.letzter_kauf = iteration]
                  ELSE a
            h == w.m.N_p_history
            sinkt == sinkt_netzwerkeffekt(h)
            z2 == IF sinkt THEN Weiter(k.z) ELSE k.z
            geht == sinkt /\ Wert(z2) < AbwanderungTrendNachfrager(h)
            e == [e0 EXCEPT !.cooldown_nach = a1.cooldown, !.gekauft = kauf,
                            !.bewertet = k.bewertet, !.bewertung = k.bewertung,
                            !.geprueft = TRUE, !.sinkt = sinkt,
                            !.tor = IF geht THEN "N" ELSE "",
                            !.entfernt = geht,
                            !.zuege = (IF angebotstag THEN 0 ELSE 1)
                                          + (IF k.bewertet # <<>> THEN 2 ELSE 0)
                                          + (IF sinkt THEN 1 ELSE 0)]
            m1 == [w.m EXCEPT !.agents = Ersetze(k.agents, a1),
                              !.protokoll = Append(@, e)]
        IN  IF geht
            THEN [w EXCEPT !.z = z2,
                           !.m = schedule_remove(
                                     [m1 EXCEPT !.abgewanderte_nachfrager = @ + 1],
                                     a.unique_id)]
            ELSE [w EXCEPT !.z = z2, !.m = m1]

----------------------------------------------------------------------------
(* PlattformModel *)

\* a StrategieCluster: effekt in hundredths; numerisch is FALSE for an effekt
\* that is no number
Cluster(effekt) == [effekt |-> effekt, numerisch |-> TRUE]
KeinZahlCluster == [effekt |-> 0, numerisch |-> FALSE]

AlleNumerisch(cl) == \A i \in 1..Len(cl) : cl[i].numerisch

\* sum(cluster.effekt for cluster in self.aktive_cluster), in hundredths
cluster_effekt(cl) == Summe([i \in 1..Len(cl) |-> cl[i].effekt])

\* a network effect that subtracts the Nachfrager
MutN_p(agents, cl) ==
    400 * Anzahl(agents, "Anbieter") - 600 * Anzahl(agents, "Nachfrager")
        + 3 * cluster_effekt(cl)

\* N_p = 0.4 * anbieterzahl + 0.6 * nachfragerzahl + 0.3 * cluster_effekt,
\* in thousandths
N_p(agents, cl) ==
    400 * Anzahl(agents, "Anbieter") + 600 * Anzahl(agents, "Nachfrager")
        + 3 * cluster_effekt(cl)

\* the place of a model that was not constructed
KeinModell ==
    [zustand |-> "kein", seed |-> KeinSeed, aktive_cluster |-> <<>>,
     N_anbieter |-> 0, N_nachfrager |-> 0, next_id |-> 0,
     N_p_history |-> <<>>, neue_anbieter |-> 0, neue_nachfrager |-> 0,
     abgewanderte_anbieter |-> 0, abgewanderte_nachfrager |-> 0,
     agents |-> <<>>, steps |-> 0, zufall_m |-> 0, daten |-> <<>>,
     vergeben |-> <<>>, protokoll |-> <<>>]

\* a function that returns the value of the day instead of the mean
Mutberechne_netzwerkeffekte(m) ==
    LET h == DequeAppend(m.N_p_history, N_p(m.agents, m.aktive_cluster))
    IN  [m |-> [m EXCEPT !.N_p_history = h],
         wert |-> [zaehler |-> N_p(m.agents, m.aktive_cluster), nenner |-> 1]]

\* berechne_netzwerkeffekte: appends N_p to the history; the value returned
\* is sum(N_p_history) / len(N_p_history), kept as numerator and denominator
berechne_netzwerkeffekte(m) ==
    LET h == DequeAppend(m.N_p_history, N_p(m.agents, m.aktive_cluster))
    IN  [m |-> [m EXCEPT !.N_p_history = h],
         wert |-> [zaehler |-> Summe(h), nenner |-> Len(h)]]

\* the initial agents: Anbieter 0..N_anbieter-1, then Nachfrager
\* N_anbieter..N_anbieter+N_nachfrager-1; range() of a negative number is empty
StartAgenten(N_anbieter, N_nachfrager) ==
    [i \in 1..Max(N_anbieter, 0) |-> Anbieter(i - 1)]
        \o [j \in 1..Max(N_nachfrager, 0) |-> Nachfrager(N_anbieter + j - 1)]

\* a next id that forgets the Nachfrager
MutStartNextId(N_anbieter, N_nachfrager) == N_anbieter

\* self.next_id = N_anbieter + N_nachfrager
StartNextId(N_anbieter, N_nachfrager) == N_anbieter + N_nachfrager

\* PlattformModel.__init__ up to the DataCollector; zm is the state of the
\* model's own generator
Konstruiert(N_anbieter, N_nachfrager, aktive_cluster, seed, zm) ==
    LET agents == StartAgenten(N_anbieter, N_nachfrager)
    IN  [KeinModell EXCEPT
            !.zustand = "aktiv", !.seed = seed,
            !.aktive_cluster = aktive_cluster,
            !.N_anbieter = N_anbieter, !.N_nachfrager = N_nachfrager,
            !.next_id = StartNextId(N_anbieter, N_nachfrager),
            !.agents = agents, !.vergeben = Vergabe(agents),
            !.zufall_m = zm]

\* DataCollector.collect: the reporters in the order of their declaration;
\* "Netzwerkeffekte" appends to the history before the rates are read; Tag is
\* schedule.steps at the time of the call (bookkeeping of the model only)
collect(m) ==
    LET n == berechne_netzwerkeffekte(m)
        h == n.m.N_p_history
        zeile == [Tag |-> m.steps,
                  Anbieter |-> Anzahl(m.agents, "Anbieter"),
                  Nachfrager |-> Anzahl(m.agents, "Nachfrager"),
                  Netzwerkeffekte |-> n.wert,
                  Neue_Anbieter |-> m.neue_anbieter,
                  Neue_Nachfrager |-> m.neue_nachfrager,
                  Abgewanderte_Anbieter |-> m.abgewanderte_anbieter,
                  Abgewanderte_Nachfrager |-> m.abgewanderte_nachfrager,
                  Beitrittsrate_Anbieter |-> berechne_beitrittsrate_anbieter(h),
                  Beitrittsrate_Nachfrager |->
                      berechne_beitrittsrate_nachfrager(h)]
    IN  [n.m EXCEPT !.daten = Append(@, zeile)]

\* one pass of the loop of random.shuffle: j = randbelow(i + 1);
\* x[i], x[j] = x[j], x[i] (positions count from 1 here)
Tausche(g, i) ==
    LET z1 == Weiter(g.z)
        j == Unter(z1, i + 1)
    IN  [z |-> z1,
         x |-> [g.x EXCEPT ![i + 1] = g.x[j + 1], ![j + 1] = g.x[i + 1]]]

\* the passes for i = hi down to lo, the upper half evaluated before the lower
RECURSIVE MischeBereich(_, _, _)
MischeBereich(g, hi, lo) ==
    IF hi < lo THEN g
    ELSE IF hi = lo THEN Tausche(g, hi)
    ELSE LET mitte == (hi + lo) \div 2
             g1 == MischeBereich(g, hi, mitte + 1)
         IN  IF Len(g1.x) = 0 THEN g1 ELSE MischeBereich(g1, mitte, lo)

\* random.shuffle(x): for i in reversed(range(1, len(x))): one pass
Mischen(z, x, i) == MischeBereich([z |-> z, x |-> x], i, 1)

\* one pass of the loop: "if agent_key in self._agents: agent.step()"
AktiviereEinen(w, key) ==
    IF ~Registriert(w.m.agents, key) THEN w
    ELSE LET a == w.m.agents[IndexVon(w.m.agents, key)]
         IN  IF a.typ = "Anbieter" THEN AnbieterStep(w, a)
             ELSE NachfragerStep(w, a)

\* the loop of RandomActivation.step: the agents of the shuffled key list that
\* are still registered are activated in turn (the first half of the keys
\* before the second); an exception ends it
RECURSIVE Aktiviere(_, _)
Aktiviere(w, keys) ==
    IF keys = <<>> \/ w.m.zustand # "aktiv" THEN w
    ELSE IF Len(keys) = 1 THEN AktiviereEinen(w, keys[1])
    ELSE LET h == Len(keys) \div 2
             w1 == Aktiviere(w, SubSeq(keys, 1, h))
         IN  IF w1.m.zustand # "aktiv" THEN w1
             ELSE Aktiviere(w1, SubSeq(keys, h + 1, Len(keys)))

\* a scheduler that forgets to count its steps
MutZaehle(w) == w

\* self.steps += 1 at the end of RandomActivation.step
Zaehle(w) ==
    IF w.m.zustand # "aktiv" THEN w ELSE [w EXCEPT !.m.steps = @ + 1]

\* RandomActivation.step: shuffle with the model's generator, activate, count
schedule_step(w) ==
    LET keys == Schluessel(w.m.agents)
        g == Mischen(w.m.zufall_m, keys, Len(keys) - 1)
    IN  Zaehle(Aktiviere([w EXCEPT !.m.zufall_m = g.z], g.x))

\* a limit taken with min for max
Mutmax_neue_anbieter(agents) ==
    Min(5, (Anzahl(agents, "Anbieter") * 3) \div 100)

\* max(5, int(aktuelle_anbieter * 0.03))
max_neue_anbieter(agents) == Max(5, (Anzahl(agents, "Anbieter") * 3) \div 100)

\* max(10, int(aktuelle_nachfrager * 0.01))
max_neue_nachfrager(agents) == Max(10, Anzahl(agents, "Nachfrager") \div 100)

\* one of the two spawn loops of PlattformModel.step: n trials, each a draw
\* against rate; w.heute counts the successes (neue_anbieter_heute,
\* neue_nachfrager_heute)
RECURSIVE Neue(_, _, _, _)
Neue(w, typ, n, rate) ==
    IF w.m.zustand # "aktiv" \/ n = 0 THEN w
    ELSE LET z1 == Weiter(w.z)
             neuer == IF typ = "Anbieter" THEN Anbieter(w.m.next_id)
                      ELSE Nachfrager(w.m.next_id)
             m1 == schedule_add(w.m, neuer)
         IN  IF Wert(z1) >= rate
             THEN Neue([w EXCEPT !.z = z1], typ, n - 1, rate)
             ELSE IF m1.zustand # "aktiv"
             THEN [w EXCEPT !.z = z1, !.m = m1]
             ELSE Neue([z |-> z1, m |-> [m1 EXCEPT !.next_id = @ + 1],
                        heute |-> w.heute + 1],
                       typ, n - 1, rate)

\* self.neue_anbieter = neue_anbieter_heute
SetzeNeueAnbieter(w) ==
    IF w.m.zustand # "aktiv" THEN w
    ELSE [w EXCEPT !.m.neue_anbieter = w.heute, !.heute = 0]

\* self.neue_nachfrager = neue_nachfrager_heute
SetzeNeueNachfrager(w) ==
    IF w.m.zustand # "aktiv" THEN w
    ELSE [w EXCEPT !.m.neue_nachfrager = w.heute, !.heute = 0]

\* the second half of PlattformModel.step: the rates and the two limits are
\* computed before the first spawn loop
Zuwachs(w, beitrittsrate_nachfrager, beitrittsrate_anbieter, max_a, max_n) ==
    SetzeNeueNachfrager(
        Neue(SetzeNeueAnbieter(Neue(w, "Anbieter", max_a,
                                    beitrittsrate_anbieter)),
             "Nachfrager", max_n, beitrittsrate_nachfrager))

\* join rates computed after the tracker recorded once more
MutWachstum(w) ==
    IF w.m.zustand # "aktiv" THEN w
    ELSE LET m1 == berechne_netzwerkeffekte(w.m).m
         IN  Zuwachs([w EXCEPT !.m = m1],
                     berechne_beitrittsrate_nachfrager(m1.N_p_history),
                     berechne_beitrittsrate_anbieter(m1.N_p_history),
                     max_neue_anbieter(m1.agents),
                     max_neue_nachfrager(m1.agents))

\* the statements of PlattformModel.step after self.schedule.step()
Wachstum(w) ==
    IF w.m.zustand # "aktiv" THEN w
    ELSE Zuwachs(w, berechne_beitrittsrate_nachfrager(w.m.N_p_history),
                 berechne_beitrittsrate_anbieter(w.m.N_p_history),
                 max_neue_anbieter(w.m.agents),
                 max_neue_nachfrager(w.m.agents))

\* a reset that forgets the two churn counters
MutZuruecksetzen(m) ==
    [m EXCEPT !.neue_anbieter = 0, !.neue_nachfrager = 0, !.protokoll = <<>>]

\* the first statements of PlattformModel.step: collect, then the counters
\* are reset
Zuruecksetzen(m) ==
    [m EXCEPT
        !.neue_anbieter = 0, !.neue_nachfrager = 0,
        !.abgewanderte_anbieter = 0, !.abgewanderte_nachfrager = 0,
        !.protokoll = <<>>]

Tagesbeginn(m) == Zuruecksetzen(collect(m))

\* a step that collects at its end instead of its beginning
Mutstep(w) ==
    LET w1 == Wachstum(schedule_step([w EXCEPT !.m = Zuruecksetzen(w.m)]))
    IN  IF w1.m.zustand # "aktiv" THEN w1
        ELSE [w1 EXCEPT !.m = collect(w1.m)]

\* PlattformModel.step; an exception ends the call where it is raised
step(w) == Wachstum(schedule_step([w EXCEPT !.m = Tagesbeginn(w.m)]))

----------------------------------------------------------------------------
(* State, inputs and actions *)

Modelle == {1, 2}

\* the states the process-wide generator can have when the program starts, and
\* the states the generator of a model without seed can get
ZufallsStart == {Saat(s) : s \in 0..1}

Seeds == 0..MaxSeed
SeedsLang == 0..MaxSeedLang
Starts == (0 - 1)..MaxStart

ClusterListen ==
    {<<>>, <<Cluster(516)>>, <<Cluster(200), Cluster(1600)>>,
     <<Cluster(0 - 400)>>, <<KeinZahlCluster>>}

\* the history of the probe: neu is its latest value, alt the value at index
\* max(0, len - 30), fuell every other value
ProbeWerte == {0, 200, 1000, 600000, 700000, 800200, 1500000}

ProbeHistory(len, alt, fuell, neu) ==
    [i \in 1..len |->
        IF i = len THEN neu
        ELSE IF i = Max(0, len - 30) + 1 THEN alt ELSE fuell]

KeineProbe ==
    [N_p_history |-> <<>>, berechnet |-> FALSE, anbieter |-> 0,
     nachfrager |-> 0]

Init ==
    /\ zufall \in ZufallsStart
    /\ modelle = [e \in Modelle |-> KeinModell]
    /\ probe = KeineProbe

\* model = PlattformModel(N_anbieter, N_nachfrager, aktive_cluster, seed=seed):
\* random.seed(seed) when a seed is given; the model's own generator is
\* random.Random(seed); a cluster effect that is no number raises TypeError in
\* berechne_netzwerkeffekte and no model is returned
Konstruktor(e, N_anbieter, N_nachfrager, aktive_cluster, seed) ==
    /\ modelle[e].zustand = "kein"
    /\ zufall' = IF seed # KeinSeed THEN Saat(seed) ELSE zufall
    /\ \E zm \in (IF seed # KeinSeed THEN {Saat(seed)} ELSE ZufallsStart) :
         modelle' = [modelle EXCEPT ![e] =
            IF AlleNumerisch(aktive_cluster)
            THEN berechne_netzwerkeffekte(
                     Konstruiert(N_anbieter, N_nachfrager, aktive_cluster,
                                 seed, zm)).m
            ELSE [KeinModell EXCEPT
                     !.zustand = "TypeError", !.seed = seed,
                     !.aktive_cluster = aktive_cluster,
                     !.N_anbieter = N_anbieter,
                     !.N_nachfrager = N_nachfrager]]
    /\ UNCHANGED probe

\* model.step()
Schritt(e) ==
    /\ modelle[e].zustand = "aktiv"
    /\ LET w == step([z |-> zufall, m |-> modelle[e], heute |-> 0])
       IN  /\ zufall' = w.z
           /\ modelle' = [modelle EXCEPT ![e] = w.m]
    /\ UNCHANGED probe

(* One model, many configurations, few days *)

Erzeuge ==
    \E na \in Starts, nn \in Starts, cl \in ClusterListen,
       seed \in Seeds \cup {KeinSeed} :
        Konstruktor(1, na, nn, cl, seed)

Tag == modelle[1].steps < MaxTage /\ Schritt(1)

Next == Erzeuge \/ Tag

Spec == Init /\ [][Next]_vars

(* One model, few configurations, many days *)

ErzeugeLang ==
    \E na \in 0..MaxStart, nn \in 1..MaxStart, seed \in SeedsLang :
        Konstruktor(1, na, nn, <<>>, seed)

TagLang == modelle[1].steps < MaxTageLang /\ Schritt(1)

NextLang == ErzeugeLang \/ TagLang

SpecLang == Init /\ [][NextLang]_vars

(* Two models in one process, their calls interleaved *)

ErzeugeZwei ==
    \E e \in Modelle, na \in 0..1, nn \in 0..1, seed \in 0..1 :
        Konstruktor(e, na, nn, <<>>, seed)

TagZwei == \E e \in Modelle : modelle[e].steps < MaxTageZwei /\ Schritt(e)

NextZwei == ErzeugeZwei \/ TagZwei

SpecZwei == Init /\ [][NextZwei]_vars

(* The join-rate functions on given histories *)

InitProbe ==
    /\ zufall = Saat(0)
    /\ modelle = [e \in Modelle |-> KeinModell]
    /\ \E len \in 0..MaxProbeLen, alt \in ProbeWerte, fuell \in ProbeWerte,
          neu \in ProbeWerte :
         probe = [KeineProbe EXCEPT
                     !.N_p_history = ProbeHistory(len, alt, fuell, neu)]

Berechne ==
    /\ ~probe.berechnet
    /\ probe' = [probe EXCEPT
                    !.berechnet = TRUE,
                    !.anbieter = berechne_beitrittsrate_anbieter(probe.N_p_history),
                    !.nachfrager =
                        berechne_beitrittsrate_nachfrager(probe.N_p_history)]
    /\ UNCHANGED <<zufall, modelle>>

NextProbe == Berechne

SpecProbe == InitProbe /\ [][NextProbe]_vars

(* sinkt_netzwerkeffekt on given histories *)

SinktWerte == {0, 1000, 2000}

\* a history of len values: neu is its latest value, marke the value at
\* position p, fuell every other value
SinktHistory(len, p, marke, fuell, neu) ==
    [i \in 1..len |-> IF i = len THEN neu ELSE IF i = p THEN marke ELSE fuell]

\* the deque holds at most 60 values
InitSinkt ==
    /\ zufall = Saat(0)
    /\ modelle = [e \in Modelle |-> KeinModell]
    /\ \E len \in 0..Min(MaxSinktLen, HistoryMaxlen), p \in 1..HistoryMaxlen,
          marke \in SinktWerte, fuell \in SinktWerte, neu \in SinktWerte :
         /\ p <= Max(1, len)
         /\ probe = [N_p_history |-> SinktHistory(len, p, marke, fuell, neu),
                     berechnet |-> FALSE, sinkt |-> FALSE]

PruefeTrend ==
    /\ ~probe.berechnet
    /\ probe' = [probe EXCEPT
                    !.berechnet = TRUE,
                    !.sinkt = sinkt_netzwerkeffekt(probe.N_p_history)]
    /\ UNCHANGED <<zufall, modelle>>

NextSinkt == PruefeTrend

SpecSinkt == InitSinkt /\ [][NextSinkt]_vars

(* The Gate-A probability on given ratings of two Anbieter *)

\* the rating sequences of up to n ratings, each one of bewerten's values
Bewertungsfolgen(n) == UNION {[1..k -> 1..5] : k \in 0..n}

\* ten ratings of value 1
ZehnEinsen == [i \in 1..10 |-> 1]

\* if len(self.bewertungen) > 0 ... if durchschnitt <= 2.5
TorAOffen(b) == MittelBerechnet(b) /\ 10 * Summe(b) <= 25 * Len(b)

InitBewertung ==
    /\ zufall = Saat(0)
    /\ modelle = [e \in Modelle |-> KeinModell]
    /\ \E b1 \in Bewertungsfolgen(MaxBewertungen) \cup {ZehnEinsen},
          b2 \in Bewertungsfolgen(2) :
         probe = [bewertungen1 |-> b1, bewertungen2 |-> b2,
                  berechnet |-> FALSE, p1 |-> 0, p2 |-> 0]

\* the probability of Gate A for both Anbieter, where the code computes it
BerechneTorA ==
    /\ ~probe.berechnet
    /\ probe' = [probe EXCEPT
                    !.berechnet = TRUE,
                    !.p1 = IF TorAOffen(probe.bewertungen1)
                           THEN AbwanderungBewertung(probe.bewertungen1)
                           ELSE 0,
                    !.p2 = IF TorAOffen(probe.bewertungen2)
                           THEN AbwanderungBewertung(probe.bewertungen2)
                           ELSE 0]
    /\ UNCHANGED <<zufall, modelle>>

NextBewertung == BerechneTorA

SpecBewertung == InitBewertung /\ [][NextBewertung]_vars

(* Anbieter.step of one Anbieter with given ratings, on given histories *)

\* histories of 1, 29, 30 and 60 values: rising, unchanged and declining
\* against the value at index max(0, len - 30), near and far from the oldest
AbwanderungHistorien ==
    {SinktHistory(1, 1, 0, 0, 1000),
     SinktHistory(29, 1, 2000, 1000, 0),
     SinktHistory(30, 1, 0, 1000, 1000),
     SinktHistory(30, 1, 1000, 1000, 1000),
     SinktHistory(30, 1, 2000, 1000, 1000),
     SinktHistory(60, 31, 1500000, 0, 0),
     SinktHistory(60, 31, 2000, 1500000, 1000),
     SinktHistory(60, 31, 2000, 101000, 1000)}

\* a model of one Anbieter (id 0) and the Nachfrager that rated it, with
\* ratings b and history h
AbwanderungModell(b, h) ==
    [Konstruiert(1, MaxBewertungen, <<>>, KeinSeed, Saat(0)) EXCEPT
        !.agents[1].bewertungen = b, !.N_p_history = h,
        !.steps = Len(h) - 1]

KeineAbwanderung == [berechnet |-> FALSE, z |-> 0]

InitAbwanderung ==
    /\ zufall \in {Saat(s) : s \in 0..MaxSeedAbwanderung}
    /\ \E b \in Bewertungsfolgen(MaxBewertungen), h \in AbwanderungHistorien :
         modelle = [e \in Modelle |->
                       IF e = 1 THEN AbwanderungModell(b, h) ELSE KeinModell]
    /\ probe = KeineAbwanderung

\* agent.step() of the Anbieter; probe.z keeps the generator's state before
SchrittAnbieter ==
    /\ ~probe.berechnet
    /\ LET w == AnbieterStep([z |-> zufall, m |-> modelle[1], heute |-> 0],
                             modelle[1].agents[1])
       IN  /\ zufall' = w.z
           /\ modelle' = [modelle EXCEPT ![1] = w.m]
    /\ probe' = [berechnet |-> TRUE, z |-> zufall]

NextAbwanderung == SchrittAnbieter

SpecAbwanderung == InitAbwanderung /\ [][NextAbwanderung]_vars

(* Nachfrager.step of one Nachfrager on given days, after the step of an
   Anbieter of the same day or without it, and the join rates of the day *)

\* schedule.steps during the call: offer days (0, 60), their neighbours, and
\* the first days with 30 values in the history
NachfragerTage == {0, 1, 27, 28, 59, 60, 61}

\* len(N_p_history) while the agents of the day are activated: one value from
\* the constructor and one from each collect
HistoryLen(steps) == Min(steps + 2, HistoryMaxlen)

\* <<value at index max(0, len - 30), every other value, latest value>>:
\* unchanged, declining and rising against the value 30 back, with the oldest
\* value near or far
NachfragerFormen ==
    {<<1000, 1000, 1000>>, <<2000, 1000, 1000>>, <<101000, 1000, 1000>>,
     <<1500000, 0, 0>>, <<2000, 1500000, 1000>>, <<2000, 101000, 1000>>,
     <<0, 1500000, 700000>>}

NachfragerHistorien(steps) ==
    LET len == HistoryLen(steps)
    IN  {SinktHistory(len, Max(0, len - Vergleichsfenster) + 1,
                      f[1], f[2], f[3]) : f \in NachfragerFormen}

\* a model of na Anbieter (ids 0..na-1, the first with ratings b) and one
\* Nachfrager (id na) with cooldown c, on day steps with history h
NachfragerModell(na, b, c, steps, h) ==
    LET m == Konstruiert(na, 1, <<>>, KeinSeed, Saat(0))
    IN  [m EXCEPT
            !.agents = [i \in 1..Len(m.agents) |->
                           IF i = na + 1 THEN [m.agents[i] EXCEPT !.cooldown = c]
                           ELSE IF i = 1
                           THEN [m.agents[i] EXCEPT !.bewertungen = b]
                           ELSE m.agents[i]],
            !.N_p_history = h, !.steps = steps]

KeinNachfrager ==
    [phase |-> "start", id |-> 0, anbieter |-> 0, nachfrager |-> 0]

\* the first purchase that sets a cooldown is on day 1, so a cooldown is
\* running on day 2 at the earliest
InitNachfrager ==
    /\ zufall \in {Saat(s) : s \in 0..MaxSeedNachfrager}
    /\ \E na \in 0..MaxStart, b \in {<<>>, <<1>>}, c \in 0..CooldownTage,
          steps \in NachfragerTage :
         \E h \in NachfragerHistorien(steps) :
            /\ steps < 2 => c = 0
            /\ modelle = [e \in Modelle |->
                              IF e = 1 THEN NachfragerModell(na, b, c, steps, h)
                              ELSE KeinModell]
            /\ probe = [KeinNachfrager EXCEPT !.id = na]

\* agent.step() of Anbieter 0, activated before the Nachfrager
SchrittAnbieterZuvor ==
    /\ probe.phase = "start"
    /\ Registriert(modelle[1].agents, 0)
    /\ modelle[1].agents[1].typ = "Anbieter"
    /\ LET w == AnbieterStep([z |-> zufall, m |-> modelle[1], heute |-> 0],
                             modelle[1].agents[1])
       IN  /\ zufall' = w.z
           /\ modelle' = [modelle EXCEPT ![1] = w.m]
    /\ probe' = [probe EXCEPT !.phase = "anbieter"]

\* agent.step() of the Nachfrager
SchrittNachfrager ==
    /\ probe.phase \in {"start", "anbieter"}
    /\ LET m == modelle[1]
           w == NachfragerStep([z |-> zufall, m |-> m, heute |-> 0],
                               m.agents[IndexVon(m.agents, probe.id)])
       IN  /\ zufall' = w.z
           /\ modelle' = [modelle EXCEPT ![1] = w.m]
    /\ probe' = [probe EXCEPT !.phase = "fertig"]

\* berechne_beitrittsrate_nachfrager() and berechne_beitrittsrate_anbieter()
\* after the activations of the day
BerechneRaten ==
    /\ probe.phase = "fertig"
    /\ probe' = [probe EXCEPT
                    !.phase = "raten",
                    !.anbieter =
                        berechne_beitrittsrate_anbieter(modelle[1].N_p_history),
                    !.nachfrager =
                        berechne_beitrittsrate_nachfrager(
                            modelle[1].N_p_history)]
    /\ UNCHANGED <<zufall, modelle>>

NextNachfrager == SchrittAnbieterZuvor \/ SchrittNachfrager \/ BerechneRaten

SpecNachfrager == InitNachfrager /\ [][NextNachfrager]_vars

(* berechne_netzwerkeffekte on given histories and populations *)

\* cluster lists of the tracker probe; the effects of the last one sum to 0
NetzCluster ==
    {<<>>, <<Cluster(516)>>, <<Cluster(200), Cluster(0 - 200)>>}

\* a history of len values: the values after position wechsel were recorded
\* with the population agents, those up to it with the population frueher
NetzHistory(len, wechsel, frueher, agents, cl) ==
    [i \in 1..len |->
        IF i <= wechsel THEN N_p(frueher, cl) ELSE N_p(agents, cl)]

InitNetz ==
    /\ zufall = Saat(0)
    /\ modelle = [e \in Modelle |-> KeinModell]
    /\ \E na \in 0..MaxStart, nn \in 0..MaxStart, fa \in 0..MaxStart,
          fn \in 0..MaxStart, cl \in NetzCluster, len \in 0..HistoryMaxlen :
         \E wechsel \in {0, 1, len} :
            probe = [agents |-> StartAgenten(na, nn), aktive_cluster |-> cl,
                     N_p_history |->
                         NetzHistory(len, wechsel, StartAgenten(fa, fn),
                                     StartAgenten(na, nn), cl),
                     vorher |-> <<>>, erfasst |-> FALSE,
                     wert |-> [zaehler |-> 0, nenner |-> 1]]

\* the reporter "Netzwerkeffekte": self.berechne_netzwerkeffekte()
Erfasse ==
    /\ ~probe.erfasst
    /\ LET n == berechne_netzwerkeffekte(probe)
       IN  probe' = [n.m EXCEPT !.vorher = probe.N_p_history,
                                !.erfasst = TRUE, !.wert = n.wert]
    /\ UNCHANGED <<zufall, modelle>>

NextNetz == Erfasse

SpecNetz == InitNetz /\ [][NextNetz]_vars

(* One model with populations around the sizes at which the limits of the
   spawn loops leave their minimum (200 Anbieter, 1100 Nachfrager) *)

GrossStarts ==
    {<<0, 0>>, <<199, 0>>, <<200, 0>>, <<201, 30>>, <<202, 30>>,
     <<0, 1099>>, <<0, 1100>>}

ErzeugeGross ==
    \E st \in GrossStarts, seed \in 0..MaxSeedGross :
        Konstruktor(1, st[1], st[2], <<>>, seed)

TagGross == modelle[1].steps < MaxTageGross /\ Schritt(1)

NextGross == ErzeugeGross \/ TagGross

SpecGross == Init /\ [][NextGross]_vars

(* One model, small populations, seeds under which the tracker declines
   within the days run *)

TrendSeeds == {12017, 17530, 22140, 24650, 36113, 50896}

ErzeugeTrend ==
    \E na \in 1..MaxStart, nn \in 1..MaxStart, seed \in TrendSeeds :
        Konstruktor(1, na, nn, <<>>, seed)

TagTrend == modelle[1].steps < MaxTageTrend /\ Schritt(1)

NextTrend == ErzeugeTrend \/ TagTrend

SpecTrend == Init /\ [][NextTrend]_vars

(* The orchestration: run_multiple_iterations down to run_simulation *)

KeinLauf == [phase |-> "start", tage |-> 0, schritte |-> 0]

InitLauf ==
    /\ zufall \in ZufallsStart
    /\ modelle = [e \in Modelle |-> KeinModell]
    /\ probe = KeinLauf

\* the number of steps run_multiple_simulations hands to run_simulation when
\* run_multiple_iterations was called with tage: the simuliere_* functions
\* take no number of days and call run_multiple_simulations without schritte,
\* which is then its default
schritte_von(tage) == SchritteStandard

\* run_multiple_iterations(tage=args.days): the call chain down to
\* run_multiple_simulations
run_multiple_iterations ==
    /\ probe.phase = "start"
    /\ \E tage \in 1..MaxTageLauf :
         probe' = [phase |-> "gerufen", tage |-> tage,
                   schritte |-> schritte_von(tage)]
    /\ UNCHANGED <<zufall, modelle>>

\* run_simulation: model = PlattformModel(anbieter, nachfrager,
\* aktive_cluster, seed=seed)
run_simulation ==
    /\ probe.phase = "gerufen"
    /\ \E na \in 0..1, nn \in 0..1 :
         Konstruktor(1, na, nn, <<Cluster(516)>>, SeedStandard)

\* run_simulation: for i in range(schritte): model.step()
TagLauf ==
    /\ probe.phase = "gerufen"
    /\ modelle[1].steps < probe.schritte
    /\ Schritt(1)

NextLauf == run_multiple_iterations \/ run_simulation \/ TagLauf

SpecLauf == InitLauf /\ [][NextLauf]_vars

----------------------------------------------------------------------------
(* Properties *)

M1 == modelle[1]

\* a model was returned by the constructor
Lebt(m) == m.zustand \in {"aktiv", "Ausnahme"}

Letzte(s) == s[Len(s)]

(* C1 *)

GleicheKonstruktion ==
    /\ modelle[1].zustand = "aktiv"
    /\ modelle[2].zustand = "aktiv"
    /\ modelle[1].seed = modelle[2].seed
    /\ modelle[1].N_anbieter = modelle[2].N_anbieter
    /\ modelle[1].N_nachfrager = modelle[2].N_nachfrager
    /\ modelle[1].aktive_cluster = modelle[2].aktive_cluster

\* C1: two models constructed with the same seed, the same initial counts and
\* the same cluster list have equal records: the k-th row of one equals the
\* k-th row of the other, for every k both have reached.
C1_Determinismus ==
    GleicheKonstruktion =>
        \A k \in 1..Min(Len(modelle[1].daten), Len(modelle[2].daten)) :
            modelle[1].daten[k] = modelle[2].daten[k]

(* C2 *)

RECURSIVE Lauf(_, _)
Lauf(w, n) == IF n = 0 THEN w ELSE Lauf(step(w), n - 1)

\* the model that m would be had it been constructed and advanced alone in
\* the process, for a model with a seed
Allein(m) ==
    Lauf([z |-> Saat(m.seed),
          m |-> berechne_netzwerkeffekte(
                    Konstruiert(m.N_anbieter, m.N_nachfrager,
                                m.aktive_cluster, m.seed, Saat(m.seed))).m,
          heute |-> 0],
         m.steps).m

\* C2: under any interleaving of the constructions and steps of two models in
\* one process, the records of each model are those it has when it runs alone.
C2_EigenerStrom ==
    \A e \in Modelle :
        modelle[e].zustand = "aktiv" /\ modelle[e].seed # KeinSeed =>
            modelle[e].daten = Allein(modelle[e]).daten

(* C3 *)

C3_Laenge ==
    Lebt(M1) =>
        Len(M1.N_p_history) = Min(60, M1.steps + 1)

C3_Anhaengen ==
    LET h == modelle[1].N_p_history
        g == modelle'[1].N_p_history
    IN  g # h =>
            IF Len(h) < 60
            THEN Len(g) = Len(h) + 1 /\ SubSeq(g, 1, Len(h)) = h
            ELSE Len(g) = 60 /\ SubSeq(g, 1, 59) = Tail(h)

\* C3: the history holds 1 value after construction and min(60, n + 1) values
\* after the n-th step; every change of it appends one value, which evicts the
\* oldest value once 60 are held; it never holds more than 60.
C3_History == [](C3_Laenge) /\ [][C3_Anhaengen]_vars

C3_Zeuge ==
    /\ M1.zustand = "aktiv"
    /\ M1.steps >= 61
    /\ Len(M1.N_p_history) = 60

(* C4 *)

\* C4: with non-negative counts S and D the first S ids given are 0..S-1, to
\* Anbieter, the next D are S..S+D-1, to Nachfrager; every id given later is
\* greater than every id given before, so no id is given twice, and every
\* registered agent holds an id that was given to it.
C4_Ids ==
    LET S == M1.N_anbieter
        D == M1.N_nachfrager
        v == M1.vergeben
    IN  Lebt(M1) /\ S >= 0 /\ D >= 0 =>
            /\ Len(v) >= S + D
            /\ \A i \in 1..S :
                 v[i] = [unique_id |-> i - 1, typ |-> "Anbieter"]
            /\ \A j \in 1..D :
                 v[S + j] = [unique_id |-> S + j - 1, typ |-> "Nachfrager"]
            /\ \A i, j \in 1..Len(v) :
                 i < j => v[i].unique_id < v[j].unique_id
            /\ \A i \in 1..Len(M1.agents) :
                 \E j \in 1..Len(v) :
                    v[j] = [unique_id |-> M1.agents[i].unique_id,
                            typ |-> M1.agents[i].typ]

\* an actor was removed and, later in the same step, another one was spawned
C4_Zeuge ==
    /\ M1.zustand = "aktiv"
    /\ M1.N_anbieter >= 0 /\ M1.N_nachfrager >= 0
    /\ M1.abgewanderte_anbieter + M1.abgewanderte_nachfrager > 0
    /\ M1.neue_anbieter + M1.neue_nachfrager > 0
    /\ Len(M1.vergeben) > M1.N_anbieter + M1.N_nachfrager

(* C5 *)

\* C5: a Nachfrager that bought on a day d that was no offer day does not buy
\* on a day of d+1..d+7 that is no offer day; on an offer day among them it
\* buys although its cooldown is running, and its cooldown is the same after
\* that step as before it.
C5_Cooldown ==
    \A i \in 1..Len(M1.protokoll) :
        LET e == M1.protokoll[i]
        IN  /\ e.typ = "Nachfrager"
            /\ e.letzter_kauf_vor >= 0
            /\ e.tag >= e.letzter_kauf_vor + 1
            /\ e.tag <= e.letzter_kauf_vor + 7
            => IF e.tag % 60 = 0
               THEN e.gekauft /\ e.cooldown_nach = e.cooldown_vor
               ELSE ~e.gekauft

\* a Nachfrager is activated on an offer day within 7 days of its purchase
C5_Zeuge ==
    \E i \in 1..Len(M1.protokoll) :
        LET e == M1.protokoll[i]
        IN  /\ e.typ = "Nachfrager"
            /\ e.tag > 0 /\ e.tag % 60 = 0
            /\ e.letzter_kauf_vor >= e.tag - 7
            /\ e.cooldown_vor > 0
            /\ e.gekauft

(* C6 *)

\* C6: a construction with a negative count or with an effect that is no
\* number returns no model: no agent exists, no id was given and the history
\* is empty.
C6_Konfigurationsfehler ==
    M1.zustand # "kein"
        /\ (M1.N_anbieter < 0 \/ M1.N_nachfrager < 0
                \/ ~AlleNumerisch(M1.aktive_cluster))
    => /\ ~Lebt(M1)
       /\ M1.agents = <<>>
       /\ M1.vergeben = <<>>
       /\ M1.N_p_history = <<>>

(* C7 *)

\* C7: a model constructed with non-negative counts never raises in step(): no
\* mean of no ratings, no agent added twice or removed when it is not
\* registered, and the history it reads is never empty.
C7_KeineAusnahme ==
    Lebt(M1) /\ M1.N_anbieter >= 0 /\ M1.N_nachfrager >= 0 =>
        /\ M1.zustand = "aktiv"
        /\ Len(M1.N_p_history) >= 1

\* a step that began with no agent at all has completed
C7_Zeuge ==
    /\ M1.zustand = "aktiv"
    /\ M1.N_anbieter >= 0 /\ M1.N_nachfrager >= 0
    /\ M1.steps >= 1
    /\ Letzte(M1.daten).Anbieter = 0
    /\ Letzte(M1.daten).Nachfrager = 0

(* C8 *)

C8_Erste ==
    Lebt(M1) /\ M1.N_anbieter >= 0 /\ M1.N_nachfrager >= 0
             /\ Len(M1.daten) >= 1 =>
        /\ M1.daten[1].Anbieter = M1.N_anbieter
        /\ M1.daten[1].Nachfrager = M1.N_nachfrager

C8_Eintritt ==
    LET m == modelle[1]
        n == modelle'[1]
    IN  m.zustand = "aktiv" /\ n # m =>
            /\ Len(n.daten) = Len(m.daten) + 1
            /\ SubSeq(n.daten, 1, Len(m.daten)) = m.daten
            /\ Letzte(n.daten).Anbieter = Anzahl(m.agents, "Anbieter")
            /\ Letzte(n.daten).Nachfrager = Anzahl(m.agents, "Nachfrager")

\* C8: the row a step appends carries the counts of the agents registered when
\* the step began, the rows before it stay as they are, and the first row
\* carries the initial counts.
C8_Schnappschuss == [](C8_Erste) /\ [][C8_Eintritt]_vars

\* the step that wrote the latest row changed the population after writing it
C8_Zeuge ==
    /\ M1.zustand = "aktiv"
    /\ Len(M1.daten) >= 2
    /\ \/ Letzte(M1.daten).Anbieter # Anzahl(M1.agents, "Anbieter")
       \/ Letzte(M1.daten).Nachfrager # Anzahl(M1.agents, "Nachfrager")

(* C9 *)

\* C9: schedule.steps is 0 after construction and grows by 1 with every step;
\* after N steps there are N rows, the k-th written by the k-th step.
C9_Tageszaehler ==
    Lebt(M1) =>
        /\ Len(M1.daten) = M1.steps
        /\ \A k \in 1..Len(M1.daten) : M1.daten[k].Tag = k - 1

C9_Zeuge ==
    /\ M1.zustand = "aktiv"
    /\ M1.steps >= 3
    /\ Len(M1.daten) = M1.steps

(* C10 *)

\* latest - history[max(0, length - 30)] of the probe, in thousandths
ProbeDelta ==
    LET h == probe.N_p_history
    IN  h[Len(h)] - h[Max(0, Len(h) - 30) + 1]

\* C10: the join rates are the base rates (0.015, 0.02) for a history of fewer
\* than 2 values and for a delta <= 0; for a positive delta they lie above the
\* base rate and not above the maximum (0.2, 0.3), and they are the maximum
\* for a delta of at least the normalizer (800, 600).
C10_Beitrittsrate ==
    probe.berechnet =>
        IF Len(probe.N_p_history) < 2 \/ ProbeDelta <= 0
        THEN probe.anbieter = 150 /\ probe.nachfrager = 200
        ELSE /\ probe.anbieter > 150 /\ probe.anbieter <= 2000
             /\ probe.nachfrager > 200 /\ probe.nachfrager <= 3000
             /\ (ProbeDelta >= 800000 => probe.anbieter = 2000)
             /\ (ProbeDelta >= 600000 => probe.nachfrager = 3000)

\* a history of more than 30 values whose delta reaches one normalizer only
C10_Zeuge ==
    /\ probe.berechnet
    /\ Len(probe.N_p_history) > 30
    /\ ProbeDelta >= 600000 /\ ProbeDelta < 800000
    /\ probe.nachfrager = 3000
    /\ probe.anbieter < 2000

(* C11 *)

\* C11: where Gate A is open (mean rating <= 2.5) its probability is not
\* smaller for the Anbieter with the smaller mean, is never above 0.9, and is
\* 0.4 for an Anbieter whose ratings are all 1.
C11_TorA ==
    LET b1 == probe.bewertungen1
        b2 == probe.bewertungen2
    IN  probe.berechnet =>
            /\ TorAOffen(b1) => probe.p1 <= 9000
            /\ TorAOffen(b1) /\ TorAOffen(b2)
                    /\ Summe(b1) * Len(b2) <= Summe(b2) * Len(b1)
                => probe.p1 >= probe.p2
            /\ Len(b1) > 0 /\ (\A i \in 1..Len(b1) : b1[i] = 1)
                => probe.p1 = 4000

\* ten ratings of 1 against an Anbieter with a greater mean that is <= 2.5
C11_Zeuge ==
    /\ probe.berechnet
    /\ probe.bewertungen1 = ZehnEinsen
    /\ probe.bewertungen2 = <<2, 3>>
    /\ probe.p1 = 4000
    /\ probe.p2 < 4000

(* C12 *)

\* the model was constructed with counts and a sum of effects that are not
\* negative
NichtNegativKonstruiert ==
    /\ Lebt(M1)
    /\ M1.N_anbieter >= 0 /\ M1.N_nachfrager >= 0
    /\ AlleNumerisch(M1.aktive_cluster)
    /\ cluster_effekt(M1.aktive_cluster) >= 0

\* C12: for a model constructed with non-negative counts and effects whose
\* sum is not negative, the two counts and the four counters of the day are
\* never negative, and every row holds a network effect, counts and counters
\* that are not negative.
C12_NichtNegativ ==
    NichtNegativKonstruiert =>
        /\ Anzahl(M1.agents, "Anbieter") >= 0
        /\ Anzahl(M1.agents, "Nachfrager") >= 0
        /\ M1.neue_anbieter >= 0 /\ M1.neue_nachfrager >= 0
        /\ M1.abgewanderte_anbieter >= 0 /\ M1.abgewanderte_nachfrager >= 0
        /\ \A v \in 1..Len(M1.N_p_history) : M1.N_p_history[v] >= 0
        /\ \A k \in 1..Len(M1.daten) :
             /\ M1.daten[k].Netzwerkeffekte.zaehler >= 0
             /\ M1.daten[k].Netzwerkeffekte.nenner > 0
             /\ M1.daten[k].Anbieter >= 0 /\ M1.daten[k].Nachfrager >= 0
             /\ M1.daten[k].Neue_Anbieter >= 0
             /\ M1.daten[k].Neue_Nachfrager >= 0
             /\ M1.daten[k].Abgewanderte_Anbieter >= 0
             /\ M1.daten[k].Abgewanderte_Nachfrager >= 0

\* a row written after the population had shrunk to no agent through churn
C12_Zeuge ==
    /\ NichtNegativKonstruiert
    /\ M1.zustand = "aktiv"
    /\ Len(M1.daten) >= 2
    /\ Letzte(M1.daten).Abgewanderte_Anbieter > 0
    /\ Letzte(M1.daten).Anbieter = 0
    /\ Letzte(M1.daten).Netzwerkeffekte.zaehler >= 0

(* C13 *)

\* 0.4 * Anbieter + 0.6 * Nachfrager of the probe's population, in thousandths
ProbeRoh ==
    400 * Anzahl(probe.agents, "Anbieter")
        + 600 * Anzahl(probe.agents, "Nachfrager")

C14_Tage ==
    probe.phase = "gerufen" /\ Lebt(M1) =>
        /\ M1.steps <= probe.tage
        /\ (M1.steps = probe.schritte => M1.steps = probe.tage)

(* C15 *)

\* the number of activations the log holds for the agent id
Aktivierungen(log, id) ==
    Cardinality({i \in 1..Len(log) : log[i].unique_id = id})

C15_Schritt ==
    LET m == modelle[1]
        n == modelle'[1]
    IN  m.zustand = "aktiv" /\ n # m =>
            /\ Len(n.protokoll) = Len(m.agents)
            /\ \A i \in 1..Len(m.agents) :
                 Aktivierungen(n.protokoll, m.agents[i].unique_id) = 1
            /\ \A i \in 1..Len(n.protokoll) : n.protokoll[i].tag = m.steps
            /\ \A i \in 1..Len(n.agents) :
                 ~Registriert(m.agents, n.agents[i].unique_id)
                     => Aktivierungen(n.protokoll, n.agents[i].unique_id) = 0

\* C15: a step activates every agent that was registered when it began exactly
\* once, the agents it removes included, and activates no agent it spawned;
\* such an agent is registered when the next step begins.
C15_EinmalProTag == [][C15_Schritt]_vars

\* a step that activated several agents, removed one and spawned one
C15_Zeuge ==
    /\ M1.zustand = "aktiv"
    /\ Len(M1.protokoll) >= 2
    /\ \E i \in 1..Len(M1.protokoll) : M1.protokoll[i].entfernt
    /\ M1.neue_anbieter + M1.neue_nachfrager > 0

(* C16 *)

\* the number of agents of a kind the log shows as removed
Entfernt(log, typ) ==
    Cardinality({i \in 1..Len(log) : log[i].typ = typ /\ log[i].entfernt})

\* the number of agents of a kind among the ids given after the first n
Gespawnt(vergeben, n, typ) ==
    Cardinality({i \in (n + 1)..Len(vergeben) : vergeben[i].typ = typ})

C16_Erste ==
    Lebt(M1) /\ Len(M1.daten) >= 1 =>
        /\ M1.daten[1].Neue_Anbieter = 0
        /\ M1.daten[1].Neue_Nachfrager = 0
        /\ M1.daten[1].Abgewanderte_Anbieter = 0
        /\ M1.daten[1].Abgewanderte_Nachfrager = 0

C16_Schritt ==
    LET m == modelle[1]
        n == modelle'[1]
        wegA == Entfernt(n.protokoll, "Anbieter")
        wegN == Entfernt(n.protokoll, "Nachfrager")
        neuA == Gespawnt(n.vergeben, Len(m.vergeben), "Anbieter")
        neuN == Gespawnt(n.vergeben, Len(m.vergeben), "Nachfrager")
    IN  m.zustand = "aktiv" /\ n # m
            /\ m.N_anbieter >= 0 /\ m.N_nachfrager >= 0 =>
            /\ Anzahl(n.agents, "Anbieter")
                   = Anzahl(m.agents, "Anbieter") - wegA + neuA
            /\ Anzahl(n.agents, "Nachfrager")
                   = Anzahl(m.agents, "Nachfrager") - wegN + neuN
            /\ n.abgewanderte_anbieter = wegA
            /\ n.abgewanderte_nachfrager = wegN
            /\ n.neue_anbieter = neuA
            /\ n.neue_nachfrager = neuN
            /\ \A i \in 1..Len(n.protokoll) :
                 n.protokoll[i].entfernt
                     <=> ~Registriert(n.agents, n.protokoll[i].unique_id)
            /\ Letzte(n.daten).Neue_Anbieter = m.neue_anbieter
            /\ Letzte(n.daten).Neue_Nachfrager = m.neue_nachfrager
            /\ Letzte(n.daten).Abgewanderte_Anbieter = m.abgewanderte_anbieter
            /\ Letzte(n.daten).Abgewanderte_Nachfrager
                   = m.abgewanderte_nachfrager

RECURSIVE Vor(_, _)
Vor(z, k) ==
    IF k = 0 THEN z
    ELSE IF k = 1 THEN Weiter(z)
    ELSE LET h == k \div 2
             z1 == Vor(z, h)
         IN  IF z1 \in Nat THEN Vor(z1, k - h) ELSE z1

\* the draws the activations of a log took
RECURSIVE Zuege(_)
Zuege(log) ==
    IF log = <<>> THEN 0
    ELSE IF Len(log) = 1 THEN log[1].zuege
    ELSE LET h == Len(log) \div 2
         IN  Zuege(SubSeq(log, 1, h)) + Zuege(SubSeq(log, h + 1, Len(log)))

C17_Schritt ==
    LET m == modelle[1]
        n == modelle'[1]
        nachA == Anzahl(m.agents, "Anbieter") - Entfernt(n.protokoll, "Anbieter")
        nachN == Anzahl(m.agents, "Nachfrager")
                     - Entfernt(n.protokoll, "Nachfrager")
        capA == Max(5, (3 * nachA) \div 100)
        capN == Max(10, nachN \div 100)
    IN  m.zustand = "aktiv" /\ n # m
            /\ m.N_anbieter >= 0 /\ m.N_nachfrager >= 0 =>
            /\ n.neue_anbieter <= capA
            /\ n.neue_nachfrager <= capN
            /\ zufall' = Vor(zufall, Zuege(n.protokoll) + capA + capN)

\* C17: a step spawns at most max(5, floor(0.03 * Anbieter)) Anbieter and at
\* most max(10, floor(0.01 * Nachfrager)) Nachfrager, counted after the
\* activations of the step, and takes exactly one draw per possible spawn: the
\* generator advances by the draws of the activations plus the two limits.
C17_Obergrenzen == [][C17_Schritt]_vars

\* the removals of a step took the Anbieter from 200 or more to fewer than
\* 200, so that the limit is 5 where it would have been 6 before them
C17_Zeuge ==
    LET nachA == Anzahl(M1.agents, "Anbieter") - M1.neue_anbieter
    IN  /\ M1.zustand = "aktiv"
        /\ M1.steps >= 1
        /\ nachA < 200
        /\ nachA + Entfernt(M1.protokoll, "Anbieter") >= 200

(* C18 *)

\* the successes among the k draws that follow the generator state z, each
\* a draw against rate
Treffer(z, k, rate) == Cardinality({i \in 1..k : Wert(Vor(z, i)) < rate})

C18_Schritt ==
    LET m == modelle[1]
        n == modelle'[1]
        zeile == Letzte(n.daten)
        nachA == Anzahl(m.agents, "Anbieter") - Entfernt(n.protokoll, "Anbieter")
        nachN == Anzahl(m.agents, "Nachfrager")
                     - Entfernt(n.protokoll, "Nachfrager")
        capA == Max(5, (3 * nachA) \div 100)
        capN == Max(10, nachN \div 100)
        za == Vor(zufall, Zuege(n.protokoll))
    IN  m.zustand = "aktiv" /\ n # m /\ n.zustand = "aktiv" =>
            /\ n.N_p_history =
                   DequeAppend(m.N_p_history, N_p(m.agents, m.aktive_cluster))
            /\ \A i \in 1..Len(n.protokoll) :
                   n.protokoll[i].geprueft =>
                       n.protokoll[i].sinkt
                           = sinkt_netzwerkeffekt(n.N_p_history)
            /\ Len(n.daten) = Len(m.daten) + 1
            /\ n.neue_anbieter = Treffer(za, capA, zeile.Beitrittsrate_Anbieter)
            /\ n.neue_nachfrager =
                   Treffer(Vor(za, capA), capN, zeile.Beitrittsrate_Nachfrager)

\* C18: a call of step appends to N_p_history exactly once, the raw value of
\* the population the snapshot saw, and nothing after the snapshot changes
\* the history; every agent of the day that checks the trend gets the answer
\* the history after the call gives; and the joins of the call are the
\* successes of its trials against the two join rates of the row the same
\* call recorded
C18_EinmalProTag == [][C18_Schritt]_vars

\* a day on which two agents checked the trend and found it declining, in a
\* run that has also recorded a join rate above the basis and a day whose
\* population changed
C18_Zeuge ==
    /\ M1.zustand = "aktiv"
    /\ Cardinality({i \in 1..Len(M1.protokoll) :
                        M1.protokoll[i].geprueft /\ M1.protokoll[i].sinkt}) >= 2
    /\ M1.neue_anbieter + M1.neue_nachfrager >= 1
    /\ \E i \in 1..Len(M1.daten) :
           M1.daten[i].Beitrittsrate_Anbieter > basis_wahrscheinlichkeit_anbieter

(* C19 *)

\* C19: sinkt_netzwerkeffekt is false for a history of fewer than 30 values;
\* for 30 values and more it is true exactly if the latest value is strictly
\* smaller than the value at index max(0, length - 30), so it is false for
\* equal values.
C19_Sinkt ==
    LET h == probe.N_p_history
    IN  probe.berechnet =>
            IF Len(h) < 30 THEN probe.sinkt = FALSE
            ELSE probe.sinkt = (h[Len(h)] < h[Max(0, Len(h) - 30) + 1])

\* a full history whose latest value equals the value 30 positions back and
\* lies below the oldest value: not declining
C19_Zeuge ==
    LET h == probe.N_p_history
    IN  /\ probe.berechnet
        /\ Len(h) = 60
        /\ h[60] = h[31]
        /\ h[60] < h[1]
        /\ ~probe.sinkt

(* C20 *)

C20_Schritt ==
    LET a == modelle[1].agents[1]
        b == a.bewertungen
        h == modelle[1].N_p_history
        offen == Len(b) > 0 /\ 10 * Summe(b) <= 25 * Len(b)
        zA == IF offen THEN Weiter(zufall) ELSE zufall
        feuertA == offen /\ Wert(zA) < AbwanderungBewertung(b)
        sinkt == sinkt_netzwerkeffekt(h)
        feuertB == ~feuertA /\ sinkt
                       /\ Wert(Weiter(zA)) < AbwanderungTrendAnbieter(h)
        entfernt == ~Registriert(modelle'[1].agents, a.unique_id)
    IN  ~probe.berechnet /\ probe'.berechnet =>
            /\ entfernt = (feuertA \/ feuertB)
            /\ modelle'[1].abgewanderte_anbieter
                   = modelle[1].abgewanderte_anbieter + (IF entfernt THEN 1 ELSE 0)
            /\ zufall' = Vor(zufall, (IF offen THEN 1 ELSE 0)
                                         + (IF ~feuertA /\ sinkt THEN 1 ELSE 0))
            /\ (~offen /\ ~sinkt => ~entfernt /\ zufall' = zufall)

\* C20: the step of an Anbieter removes it exactly if Gate A fires or Gate A
\* does not fire and Gate B fires; Gate A draws only for ratings that are not
\* empty and have a mean of at most 2.5; Gate B does not draw once Gate A
\* fired (nor on a day without decline); an Anbieter with no ratings or a
\* mean above 2.5 stays on a day without decline.
C20_Abwanderung == [][C20_Schritt]_vars

\* Gate A fired on a declining day on which the draw that Gate B would have
\* taken would have fired too: the Anbieter is gone after one draw
C20_Zeuge ==
    LET h == M1.N_p_history
    IN  /\ probe.berechnet
        /\ ~Registriert(M1.agents, 0)
        /\ Letzte(M1.protokoll).tor = "A"
        /\ sinkt_netzwerkeffekt(h)
        /\ zufall = Weiter(probe.z)
        /\ Wert(Weiter(zufall)) < AbwanderungTrendAnbieter(h)

(* C21 *)

\* the step of the Nachfrager of the probe is taken
NachfragerSchritt == probe.phase \in {"start", "anbieter"} /\ probe'.phase = "fertig"

\* the Nachfrager of the probe, in the model m
DerNachfrager(m) == m.agents[IndexVon(m.agents, probe.id)]

C21_Schritt ==
    LET m == modelle[1]
        n == modelle'[1]
        a == DerNachfrager(m)
    IN  NachfragerSchritt /\ m.steps % 60 # 0 /\ a.cooldown > 0 =>
            /\ zufall' = zufall
            /\ [n EXCEPT !.protokoll = m.protokoll]
                   = [m EXCEPT !.agents =
                         Ersetze(m.agents, [a EXCEPT !.cooldown = a.cooldown - 1])]

\* C21: the step of a Nachfrager with a cooldown above 0 on a day that is no
\* offer day lowers its cooldown by 1 and changes nothing else: no draw is
\* taken (no purchase trial, no rating, no churn trial), no rating list and no
\* counter changes, and the Nachfrager stays registered.
C21_Warten == [][C21_Schritt]_vars

\* a Nachfrager waited on day 61 with Anbieter registered and a declining
\* tracker: its cooldown went from 7 to 6
C21_Zeuge ==
    /\ probe.phase = "fertig"
    /\ M1.steps = 61
    /\ Registriert(M1.agents, probe.id)
    /\ DerNachfrager(M1).cooldown = 6
    /\ anbieter_liste(M1.agents) # <<>>
    /\ sinkt_netzwerkeffekt(M1.N_p_history)

(* C22 *)

\* the number of ratings the registered agents hold
Bewertungszahl(agents) ==
    Summe([i \in 1..Len(agents) |-> Len(agents[i].bewertungen)])

C22_Schritt ==
    LET m == modelle[1]
        n == modelle'[1]
        a == DerNachfrager(m)
        e == Letzte(n.protokoll)
    IN  NachfragerSchritt =>
            /\ e.unique_id = a.unique_id
            /\ Registriert(n.agents, a.unique_id) =>
                   DerNachfrager(n).cooldown = e.cooldown_nach
            /\ IF m.steps % 60 = 0
               THEN /\ e.gekauft
                    /\ e.cooldown_nach = a.cooldown
                    /\ anbieter_liste(m.agents) # <<>> =>
                           Bewertungszahl(n.agents) = Bewertungszahl(m.agents) + 1
               ELSE /\ e.gekauft => a.cooldown = 0 /\ e.cooldown_nach = 7
                    /\ ~e.gekauft =>
                           Bewertungszahl(n.agents) = Bewertungszahl(m.agents)

\* C22: on a day whose number (schedule.steps during the call, 0 on the first
\* day) is a multiple of 60 a Nachfrager that is stepped buys whatever its
\* cooldown is, and its cooldown stays as it was; on every other day it buys
\* only with a cooldown of 0, and the purchase sets its cooldown to 7.
C22_Angebotstag == [][C22_Schritt]_vars

\* a Nachfrager with a running cooldown bought on day 60 and its rating
\* arrived
C22_Zeuge ==
    /\ probe.phase = "fertig"
    /\ M1.steps = 60
    /\ Letzte(M1.protokoll).typ = "Nachfrager"
    /\ Letzte(M1.protokoll).cooldown_vor > 0
    /\ Letzte(M1.protokoll).gekauft
    /\ Letzte(M1.protokoll).bewertet # <<>>

(* C23 *)

\* the step of the Nachfrager of the probe is taken and is not the waiting one
NachfragerPrueft ==
    /\ NachfragerSchritt
    /\ modelle[1].steps % 60 = 0 \/ DerNachfrager(modelle[1]).cooldown = 0

\* the draws of the step before the churn check: the purchase trial on a day
\* that is no offer day, the choice and the rating of a purchase
ZuegeKauf(m, z) ==
    LET angebot == m.steps % 60 = 0
        kauf == angebot \/ Wert(Weiter(z)) < 3000
    IN  (IF angebot THEN 0 ELSE 1)
            + (IF kauf /\ anbieter_liste(m.agents) # <<>> THEN 2 ELSE 0)

C23_Schritt ==
    LET m == modelle[1]
        n == modelle'[1]
        h == m.N_p_history
        sinkt == Len(h) >= 30 /\ h[Len(h)] < h[Max(0, Len(h) - 30) + 1]
        p == Max(200, Min(1500, Abs(h[Len(h)] - h[1]) \div 150))
        u == Wert(zufall')
        entfernt == ~Registriert(n.agents, probe.id)
    IN  NachfragerPrueft =>
            /\ zufall' = Vor(zufall, ZuegeKauf(m, zufall)
                                         + (IF sinkt THEN 1 ELSE 0))
            /\ entfernt = (sinkt /\ u < p)
            /\ sinkt /\ u < 200 => entfernt
            /\ u >= 1500 => ~entfernt
            /\ n.abgewanderte_nachfrager
                   = m.abgewanderte_nachfrager + (IF entfernt THEN 1 ELSE 0)

\* C23: a Nachfrager draws for its churn only if the tracker declines; it is
\* removed exactly if the draw lies below |latest - oldest value of the
\* history| / 1500 held between 0.02 and 0.15: always for a draw below 0.02,
\* never for a draw of 0.15 or more, and the value the latest is compared
\* with is the one at index 0.
C23_AbwanderungNachfrager == [][C23_Schritt]_vars

\* a Nachfrager left on a draw of 0.02 or more, on a history whose latest
\* value is far below the oldest and close to the value 30 back
C23_Zeuge ==
    LET h == M1.N_p_history
    IN  /\ probe.phase = "fertig"
        /\ ~Registriert(M1.agents, probe.id)
        /\ Wert(zufall) >= 200
        /\ Abs(h[Len(h)] - h[Max(0, Len(h) - 30) + 1]) < 30000
        /\ Abs(h[Len(h)] - h[1]) >= 225000

(* C24 *)

\* the step of Anbieter 0 of the probe is taken
AnbieterSchritt == probe.phase = "start" /\ probe'.phase = "anbieter"

\* the tracker declines on the history h
Sinkend(h) == Len(h) >= 30 /\ h[Len(h)] < h[Max(0, Len(h) - 30) + 1]

\* the latest value of h against the oldest, and against the value 30 back
DeltaAeltester(h) == h[Len(h)] - h[1]
DeltaDreissig(h) == h[Len(h)] - h[Max(0, Len(h) - 30) + 1]

\* Gate B of the Anbieter measures the decline from the oldest value
C24_TorB ==
    LET m == modelle[1]
        h == m.N_p_history
        b == m.agents[1].bewertungen
        offen == Len(b) > 0 /\ 10 * Summe(b) <= 25 * Len(b)
        zA == IF offen THEN Weiter(zufall) ELSE zufall
        feuertA == offen /\ Wert(zA) < AbwanderungBewertung(b)
        pB == Max(500, Min(2000, Abs(DeltaAeltester(h)) \div 100))
    IN  AnbieterSchritt =>
            ~Registriert(modelle'[1].agents, 0)
                = (feuertA \/ (Sinkend(h) /\ Wert(Weiter(zA)) < pB))

\* the two join rates measure the change from the value 30 back
C24_Raten ==
    LET h == modelle[1].N_p_history
    IN  probe.phase = "fertig" /\ probe'.phase = "raten" =>
            IF Len(h) < 2 \/ DeltaDreissig(h) <= 0
            THEN probe'.anbieter = 150 /\ probe'.nachfrager = 200
            ELSE /\ probe'.anbieter > 150
                 /\ probe'.nachfrager > 200
                 /\ (DeltaDreissig(h) >= 800000 => probe'.anbieter = 2000)
                 /\ (DeltaDreissig(h) >= 600000 => probe'.nachfrager = 3000)

\* the churn of the Nachfrager measures the decline from the value 30 back
C24_NachfragerDreissig ==
    LET h == modelle[1].N_p_history
        p == Max(200, Min(1500, Abs(DeltaDreissig(h)) \div 150))
    IN  NachfragerPrueft =>
            ~Registriert(modelle'[1].agents, probe.id)
                = (Sinkend(h) /\ Wert(zufall') < p)

\* the churn of the Nachfrager measures the decline from the oldest value
C24_NachfragerAeltester ==
    LET h == modelle[1].N_p_history
        p == Max(200, Min(1500, Abs(DeltaAeltester(h)) \div 150))
    IN  NachfragerPrueft =>
            ~Registriert(modelle'[1].agents, probe.id)
                = (Sinkend(h) /\ Wert(zufall') < p)

C25_Schritt ==
    LET m == modelle[1]
        h == m.N_p_history
        b == m.agents[1].bewertungen
        offen == Len(b) > 0 /\ 10 * Summe(b) <= 25 * Len(b)
        zA == IF offen THEN Weiter(zufall) ELSE zufall
        feuertA == offen /\ Wert(zA) < AbwanderungBewertung(b)
        geprueftB == ~feuertA /\ Sinkend(h)
        p == Max(500, Min(2000, Abs(h[Len(h)] - h[1]) \div 100))
        u == Wert(zufall')
        entfernt == ~Registriert(modelle'[1].agents, 0)
    IN  ~probe.berechnet /\ probe'.berechnet /\ ~feuertA =>
            /\ zufall' = IF geprueftB THEN Weiter(zA) ELSE zA
            /\ entfernt = (geprueftB /\ u < p)
            /\ geprueftB /\ u < 500 => entfernt
            /\ u >= 2000 => ~entfernt

\* C25: an Anbieter that Gate A did not remove draws for Gate B only if the
\* tracker declines; it is removed exactly if that draw lies below
\* |latest - oldest value of the history| / 1000 held between 0.05 and 0.2:
\* always for a draw below 0.05, never for a draw of 0.2 or more.
C25_TorB == [][C25_Schritt]_vars

\* an Anbieter left through Gate B on a draw of 0.05 or more, on a history
\* whose latest value lies 100 below the oldest
C25_Zeuge ==
    LET h == M1.N_p_history
    IN  /\ probe.berechnet
        /\ Letzte(M1.protokoll).tor = "B"
        /\ ~Registriert(M1.agents, 0)
        /\ Wert(zufall) >= 500
        /\ Abs(h[Len(h)] - h[1]) = 100000

(* C26 *)

\* the ids of the registered agents, and the ids ever given
IdsRegistriert(m) == {m.agents[i].unique_id : i \in 1..Len(m.agents)}
IdsVergeben(m) == {m.vergeben[i].unique_id : i \in 1..Len(m.vergeben)}

\* the ids of the agents removed before the state m
IdsEntfernt(m) == IdsVergeben(m) \ IdsRegistriert(m)

C26_Schritt ==
    LET m == modelle[1]
        n == modelle'[1]
        log == n.protokoll
        gegangen == {log[i].unique_id : i \in {j \in 1..Len(log) : log[j].entfernt}}
    IN  m.zustand = "aktiv" /\ n # m /\ n.zustand = "aktiv" =>
            /\ IdsRegistriert(m) \ IdsRegistriert(n) = gegangen
            /\ \A i \in 1..Len(log) :
                   /\ log[i].unique_id \in IdsRegistriert(m)
                   /\ log[i].entfernt =>
                          /\ log[i].geprueft
                          /\ log[i].tor \in (IF log[i].typ = "Anbieter"
                                              THEN {"A", "B"} ELSE {"N"})
                          /\ \A j \in (i + 1)..Len(log) :
                                 log[j].unique_id # log[i].unique_id
            /\ IdsEntfernt(m) \cap IdsRegistriert(n) = {}
            /\ IdsEntfernt(n) = IdsEntfernt(m) \cup gegangen
            /\ Letzte(n.daten).Anbieter = Anzahl(m.agents, "Anbieter")
            /\ Letzte(n.daten).Nachfrager = Anzahl(m.agents, "Nachfrager")
            /\ \A i \in (Len(m.vergeben) + 1)..Len(n.vergeben) :
                   \A j \in 1..Len(m.vergeben) :
                      n.vergeben[i].unique_id > m.vergeben[j].unique_id

\* C26: the agents that leave the registry in a step are those whose own
\* activation of that step ended with their churn gate firing; an agent is
\* not activated after its removal, an agent removed before stays out of the
\* registry and out of the counts of the row of a later step, and the ids
\* given in the step are greater than every id given before.
C26_Endgueltig == [][C26_Schritt]_vars

\* an Anbieter and a Nachfrager were removed on earlier days, and agents
\* joined today
C26_Zeuge ==
    LET heute == {M1.protokoll[i].unique_id : i \in 1..Len(M1.protokoll)}
        frueher == {i \in 1..Len(M1.vergeben) :
                       /\ M1.vergeben[i].unique_id \in IdsEntfernt(M1)
                       /\ M1.vergeben[i].unique_id \notin heute}
    IN  /\ M1.zustand = "aktiv"
        /\ \E i \in frueher : M1.vergeben[i].typ = "Anbieter"
        /\ \E i \in frueher : M1.vergeben[i].typ = "Nachfrager"
        /\ M1.neue_anbieter + M1.neue_nachfrager >= 1

(* C27 *)

\* the agent with the id in the model n received exactly the rating r on top
\* of the ratings it holds in m
Erhielt(m, n, id, r) ==
    /\ Registriert(n.agents, id)
    /\ n.agents[IndexVon(n.agents, id)].bewertungen
           = Append(m.agents[IndexVon(m.agents, id)].bewertungen, r)

\* the agent with the id holds in n the ratings it holds in m
Behielt(m, n, id) ==
    /\ Registriert(n.agents, id)
    /\ n.agents[IndexVon(n.agents, id)].bewertungen
           = m.agents[IndexVon(m.agents, id)].bewertungen

C27_Schritt ==
    LET m == modelle[1]
        n == modelle'[1]
        angebot == m.steps % 60 = 0
        kauf == angebot \/ Wert(Weiter(zufall)) < 3000
        anbieter == {m.agents[i].unique_id :
                        i \in {j \in 1..Len(m.agents) :
                                  m.agents[j].typ = "Anbieter"}}
        e == Letzte(n.protokoll)
    IN  NachfragerPrueft /\ kauf =>
            /\ n.zustand = "aktiv"
            /\ e.gekauft
            /\ IF anbieter = {}
               THEN /\ e.bewertet = <<>>
                    /\ Bewertungszahl(n.agents) = Bewertungszahl(m.agents)
               ELSE \E id \in anbieter, r \in 1..5 :
                      /\ e.bewertet = <<id>>
                      /\ Erhielt(m, n, id, r)
                      /\ \A andere \in anbieter \ {id} : Behielt(m, n, andere)
                      /\ Bewertungszahl(n.agents) = Bewertungszahl(m.agents) + 1
            /\ ~angebot => e.cooldown_nach = 7
            /\ ~angebot /\ Registriert(n.agents, probe.id) =>
                   DerNachfrager(n).cooldown = 7

\* C27: a purchase hands one rating of 1..5 to one Anbieter that is
\* registered when the purchase is made and to nobody else, also when an
\* Anbieter was removed earlier on the day; with no Anbieter registered the
\* purchase hands out no rating and raises nothing; in both cases the cooldown
\* of the buyer is 7 after a purchase on a day that is no offer day.
C27_Kauf == [][C27_Schritt]_vars

\* Anbieter 0 was removed earlier on the day and the purchase of the
\* Nachfrager rated Anbieter 1
C27_Zeuge ==
    /\ probe.phase = "fertig"
    /\ Len(M1.protokoll) = 2
    /\ M1.protokoll[1].unique_id = 0
    /\ M1.protokoll[1].entfernt
    /\ M1.protokoll[2].gekauft
    /\ M1.protokoll[2].bewertet = <<1>>
    /\ Len(M1.agents[IndexVon(M1.agents, 1)].bewertungen) = 1

(* C28 *)

\* the ratings the agent with the id holds when the activation at position i
\* of the log begins: those it held when the step began and those delivered
\* by the activations before
BewertungenBis(m, log, i, id) ==
    LET davor == SelectSeq(SubSeq(log, 1, i - 1),
                           LAMBDA e : e.bewertet = <<id>>)
    IN  m.agents[IndexVon(m.agents, id)].bewertungen
            \o [j \in 1..Len(davor) |-> davor[j].bewertung]

C28_Schritt ==
    LET m == modelle[1]
        n == modelle'[1]
        log == n.protokoll
    IN  m.zustand = "aktiv" /\ n # m /\ n.zustand = "aktiv" =>
            /\ m.steps <= 28 => Len(n.N_p_history) = m.steps + 2
            /\ m.steps < 28 =>
                   /\ n.abgewanderte_nachfrager = 0
                   /\ \A i \in 1..Len(m.agents) :
                          m.agents[i].typ = "Nachfrager" =>
                              Registriert(n.agents, m.agents[i].unique_id)
                   /\ \A i \in 1..Len(log) :
                          /\ log[i].tor \in {"", "A"}
                          /\ log[i].entfernt =>
                                 LET b == BewertungenBis(m, log, i,
                                                         log[i].unique_id)
                                 IN  /\ log[i].typ = "Anbieter"
                                     /\ Len(b) > 0
                                     /\ 10 * Summe(b) <= 25 * Len(b)
                          /\ log[i].zuege <=
                                 IF log[i].typ = "Anbieter" THEN 1 ELSE 3

\* C28: in each of the first 28 calls of step the history holds fewer than 30
\* values while the agents are activated (call k: k + 1 values), no agent
\* draws for a trend gate, no Nachfrager is removed and the counter of their
\* churn is 0, and an Anbieter that is removed held ratings with a mean of
\* at most 2.5 when it was activated; in the 29th call the history holds 30
\* values.
C28_ErsteTage == [][C28_Schritt]_vars

\* the 29th call has removed a Nachfrager
C28_Zeuge ==
    /\ M1.zustand = "aktiv"
    /\ M1.steps = 29
    /\ M1.abgewanderte_nachfrager >= 1
    /\ \E i \in 1..Len(M1.protokoll) : M1.protokoll[i].tor = "N"

(* C29 *)

C29_Bereich ==
    Lebt(M1) =>
        \A i \in 1..Len(M1.agents) :
            M1.agents[i].typ = "Nachfrager" => M1.agents[i].cooldown \in 0..7

\* an offer day lies among the days von..bis
AngebotstagIn(von, bis) == \E t \in von..bis : t % 60 = 0

C29_Schritt ==
    LET m == modelle[1]
        n == modelle'[1]
        log == n.protokoll
    IN  m.zustand = "aktiv" /\ n # m /\ n.zustand = "aktiv" =>
            \A i \in 1..Len(log) :
                LET e == log[i]
                    d == e.letzter_kauf_vor
                IN  e.typ = "Nachfrager" =>
                        /\ e.tag = m.steps
                        /\ e.cooldown_vor
                               = m.agents[IndexVon(m.agents, e.unique_id)].cooldown
                        /\ Registriert(n.agents, e.unique_id) =>
                               n.agents[IndexVon(n.agents, e.unique_id)].cooldown
                                   = e.cooldown_nach
                        /\ e.tag % 60 # 0 /\ e.cooldown_vor > 0 =>
                               e.cooldown_nach = e.cooldown_vor - 1
                        /\ e.tag % 60 = 0 => e.cooldown_nach = e.cooldown_vor
                        /\ e.gekauft /\ e.tag % 60 # 0 /\ d >= 0 =>
                               /\ e.tag >= d + 8
                               /\ AngebotstagIn(d + 1, d + 8) => e.tag >= d + 9

\* C29: the cooldown of a Nachfrager lies in 0..7; the step of a day that is
\* no offer day lowers a cooldown above 0 by exactly 1, the step of an offer
\* day leaves it as it is; so a Nachfrager that bought on a day d that was no
\* offer day buys next, offer days aside, on day d+8 at the earliest, and on
\* day d+9 at the earliest if an offer day lies in d+1..d+8.
C29_Abstand == [](C29_Bereich) /\ [][C29_Schritt]_vars

\* a Nachfrager buys 9 days after its last purchase, with an offer day in
\* between
C29_Zeuge ==
    \E i \in 1..Len(M1.protokoll) :
        LET e == M1.protokoll[i]
        IN  /\ e.typ = "Nachfrager"
            /\ e.gekauft
            /\ e.tag % 60 # 0
            /\ e.letzter_kauf_vor >= 0
            /\ e.tag = e.letzter_kauf_vor + 9
            /\ AngebotstagIn(e.letzter_kauf_vor + 1, e.letzter_kauf_vor + 8)

====
